---------------------------- MODULE Spec2Model ----------------------------
(***************************************************************************)
(* Model of actions/os_actions.py of charm-neutron-openvswitch: the action *)
(* dispatcher main(), its nine handlers, and the external stores they act  *)
(* on (neutron agent registry, service manager, workload status, deferred  *)
(* event store, charm config, action parameters).                          *)
(*                                                                         *)
(* One behaviour is a sequence of at most MaxRuns invocations of the       *)
(* script.  The external stores persist across invocations; everything    *)
(* else is reset when an invocation starts.  Every collaborator call that  *)
(* can raise is modelled with a nondeterministic fault.                    *)
(***************************************************************************)
EXTENDS Integers, Sequences, FiniteSets, TLC

(* Number of invocations of the script in one behaviour. *)
MaxRuns == 2
(* Longest value of the "services" action parameter, in characters. *)
MaxStrLen == 3

-----------------------------------------------------------------------------
(* Program constants *)

UNIT_REMOVED_MSG == "Neutron agents were removed from the cloud"

BLOCKED == "blocked"
ACTIVE == "active"

PRECONDITION_MSG == "Consider disabling neutron agents before deletion"

ActionsRegistry ==
    {"disable", "enable", "pause", "resume", "register-to-cloud",
     "remove-from-cloud", "restart-services", "show-deferred-events",
     "run-deferred-hooks"}

-----------------------------------------------------------------------------
(* The environment the script runs in *)

(* Names the script may be invoked under: the registered ones and two that *)
(* are not registered.                                                     *)
Names == ActionsRegistry \cup {"foo", "restart"}

(* argv[0] as its "/"-separated components. *)
Argv0s == {<<n>> : n \in Names} \cup {<<"actions", n>> : n \in Names}

(* The local host as HostInfoContext reports it. *)
host_info == [host |-> "node1", host_fqdn |-> "node1.maas"]

(* The agents the neutron API may know: id -> host, binary. *)
AgentIds == {"a1", "a2", "a3", "a4"}

AgentHost(a) ==
    CASE a = "a1" -> "node1"
      [] a = "a2" -> "node1"
      [] a = "a3" -> "node1"
      [] a = "a4" -> "node1.maas"

AgentBinary(a) ==
    CASE a = "a1" -> "neutron-openvswitch-agent"
      [] a = "a2" -> "neutron-dhcp-agent"
      [] a = "a3" -> "neutron-sriov-agent"
      [] a = "a4" -> "neutron-l3-agent"

HookNames == {"config-changed", "update-status"}

(* Exceptions a collaborator call may raise. *)
Faults ==
    {[kind |-> "Exception", arg |-> "boom"],
     [kind |-> "KeyError", arg |-> "binary"]}

NoFault == [kind |-> "none", arg |-> ""]

(* Characters of the "services" action parameter. *)
Chars == {" ", "s"}

RECURSIVE StringsUpTo(_)
StringsUpTo(n) ==
    IF n = 0 THEN {<<>>}
    ELSE LET shorter == StringsUpTo(n - 1)
         IN  shorter \cup {Append(s, c) : s \in shorter, c \in Chars}

ParamSets ==
    [deferred_only : BOOLEAN, services : StringsUpTo(MaxStrLen),
     run_hooks : BOOLEAN]

NoParams == [deferred_only |-> FALSE, services |-> <<>>, run_hooks |-> FALSE]

-----------------------------------------------------------------------------
(* Python builtins the script relies on *)

(* os.path.basename: the component after the last "/". *)
basename(path) == path[Len(path)]

(* str(e): a KeyError prints the repr of its key, any other exception its  *)
(* message.                                                                *)
str(e) == IF e.kind = "KeyError" THEN "'" \o e.arg \o "'" ELSE e.arg

(* str.split(): the maximal runs of non-blank characters, in order. *)
RECURSIVE SplitFrom(_, _, _)
SplitFrom(s, word, out) ==
    LET flushed == IF word = "" THEN out ELSE Append(out, word)
    IN  IF s = <<>> THEN flushed
        ELSE IF Head(s) = " " THEN SplitFrom(Tail(s), "", flushed)
        ELSE SplitFrom(Tail(s), word \o Head(s), out)

split(s) == SplitFrom(s, "", <<>>)

(* sys.exit(arg): None exits 0 and prints nothing; a string is printed to  *)
(* stderr and the exit status is 1.                                        *)
sys_exit(arg) ==
    IF arg = "None" THEN [code |-> 0, stderr |-> ""]
    ELSE [code |-> 1, stderr |-> arg]

-----------------------------------------------------------------------------
VARIABLES
    (* external stores, kept across invocations *)
    agents_db,          \* neutron API: agent id -> "up" | "down" | "absent"
    cfg_dhcp,           \* config("enable-local-dhcp-and-metadata")
    fqdn_hint,          \* host_info["use_fqdn_hint"]
    unit_status,        \* workload status <<state, message>>
    svc_paused,         \* service manager: the paused services
    restart_permitted,  \* deferred_events.is_restart_permitted()
    deferred_hooks,     \* deferred_events.get_deferred_hooks()
    (* the running invocation *)
    runs,               \* invocations started so far
    pc,                 \* where the invocation is
    action_name,        \* main: action_name
    params,             \* what action_get returns
    agents,             \* the rest of the "for agent in agents" loop
    cur,                \* remove_from_cloud: the agent of this iteration
    binaries,           \* register_to_cloud: the rest of agents_binaries
    exc,                \* the exception raised in the handler, if any
    ret,                \* what main returned
    exit_code,          \* the status the process exited with
    stderr,             \* what the process printed on exit
    calls,              \* the collaborator calls the invocation made
    start,              \* the stores as the invocation found them
    prev                \* the invocation before this one

stores ==
    <<agents_db, cfg_dhcp, fqdn_hint, unit_status, svc_paused,
      restart_permitted, deferred_hooks>>

vars ==
    <<stores, runs, pc, action_name, params, agents, cur, binaries, exc, ret,
      exit_code, stderr, calls, start, prev>>

(* calls: one entry per collaborator, in call order where order matters.   *)
NoCalls ==
    [handler       |-> <<>>,  \* handlers main invoked
     action_fail   |-> <<>>,  \* action_fail(msg)
     function_fail |-> <<>>,  \* function_fail(msg)
     function_set  |-> 0,     \* function_set / action_set
     status_set    |-> <<>>,  \* status_set(state, msg)
     log           |-> 0,     \* log(...)
     update_agent  |-> <<>>,  \* update_agent(id, admin_state_up)
     service_pause |-> <<>>,  \* service_pause(binary)
     delete_agent  |-> <<>>,  \* delete_agent(id)
     service_resume |-> <<>>, \* service_resume(binary)
     config_changed |-> <<>>, \* config_changed(check_deferred_restarts=..)
     clear_deferred_hook |-> <<>>,     \* clear_deferred_hook(name)
     restart_services_action |-> <<>>, \* restart_services_action(...)
     assess_status |-> 0]     \* assess_status(configs)

NoAgent == [id |-> "none", binary |-> "", admin_state_up |-> FALSE]

Statuses ==
    {<<ACTIVE, "Unit is ready">>, <<BLOCKED, UNIT_REMOVED_MSG>>,
     <<BLOCKED, "Unrelated reason for blocked status">>,
     <<"maintenance", UNIT_REMOVED_MSG>>}

NoPrev == [action |-> "none", ok |-> FALSE, paused |-> {}]

Range(s) == {s[i] : i \in DOMAIN s}

Snapshot ==
    [db |-> agents_db, status |-> unit_status, hooks |-> deferred_hooks,
     paused |-> svc_paused]

(* The state a behaviour starts in: no invocation yet, the stores as given. *)
InitWith(db, dhcp, fqdn, status, permitted, hooks) ==
    /\ agents_db = db
    /\ cfg_dhcp = dhcp
    /\ fqdn_hint = fqdn
    /\ unit_status = status
    /\ svc_paused = {}
    /\ restart_permitted = permitted
    /\ deferred_hooks = hooks
    /\ runs = 0
    /\ pc = "idle"
    /\ action_name = ""
    /\ params = NoParams
    /\ agents = {}
    /\ cur = NoAgent
    /\ binaries = <<>>
    /\ exc = NoFault
    /\ ret = "None"
    /\ exit_code = 0
    /\ stderr = ""
    /\ calls = NoCalls
    /\ start = [db |-> db, status |-> status, hooks |-> hooks, paused |-> {}]
    /\ prev = NoPrev

-----------------------------------------------------------------------------
(* main, and the ways an invocation ends *)

UndefinedMsg(name) == "Action " \o name \o " undefined"

FailedMsg(name, e) == "Action " \o name \o " failed: " \o str(e)

(* The handler the registry maps each name to, as the place it starts at.  *)
Handler(name) ==
    CASE name \in {"disable", "enable"} -> "_set_agents"
      [] name = "pause" -> "pause"
      [] name = "resume" -> "resume"
      [] name = "register-to-cloud" -> "register_to_cloud"
      [] name = "remove-from-cloud" -> "remove_from_cloud"
      [] name = "restart-services" -> "restart"
      [] name = "show-deferred-events" -> "show_deferred_events"
      [] name = "run-deferred-hooks" -> "run_deferred_hooks"

(* main returns r, after the calls c, and sys.exit(r) ends the process.    *)
(* e is the exception the handler raised, NoFault if it raised none.       *)
Exit(c, e, r) ==
    /\ pc' = "exited"
    /\ calls' = c
    /\ exc' = e
    /\ ret' = r
    /\ exit_code' = sys_exit(r).code
    /\ stderr' = sys_exit(r).stderr

(* The handler returns: main falls off its end and returns None. *)
Return(c) == Exit(c, NoFault, "None")

(* Faulty variants of main's except clause.  The handler is called inside  *)
(* the try block that guards the lookup, so that a KeyError of the handler *)
(* is taken for an unknown action:                                         *)
main_except_lookup_catches(c, e) ==
    IF e.kind = "KeyError"
    THEN Exit([c EXCEPT !.action_fail = Append(@, UndefinedMsg(action_name))],
              e, UndefinedMsg(action_name))
    ELSE Exit([c EXCEPT !.action_fail =
                  Append(@, FailedMsg(action_name, e))], e, "None")

(* the exception is swallowed without a report:                            *)
main_except_silent(c, e) == Exit(c, e, "None")

(* the failure message is returned, as it is for an unknown action:        *)
main_except_returns_message(c, e) ==
    Exit([c EXCEPT !.action_fail = Append(@, FailedMsg(action_name, e))],
         e, FailedMsg(action_name, e))

(* main's "except Exception as e" clause, entered after the calls c. *)
main_except(c, e) ==
    Exit([c EXCEPT !.action_fail = Append(@, FailedMsg(action_name, e))],
         e, "None")

(* A collaborator call raises, after the calls c: the handler is left at   *)
(* once and the exception reaches main's except clause.                    *)
Raise(c) == \E e \in Faults : main_except(c, e)

(* The handler goes on to its next step. *)
Step(next, c) ==
    /\ pc' = next
    /\ calls' = c
    /\ UNCHANGED <<exc, ret, exit_code, stderr>>

(* The script is started as argv0 with action parameters p: main looks the *)
(* action up and either reports it undefined and returns the message, or   *)
(* enters its handler.                                                     *)
main(argv0, p) ==
    LET name == basename(argv0) IN
    /\ pc \in {"idle", "exited"}
    /\ runs' = runs + 1
    /\ action_name' = name
    /\ params' = p
    /\ agents' = {}
    /\ cur' = NoAgent
    /\ binaries' = <<>>
    /\ start' = Snapshot
    /\ prev' = IF pc = "idle" THEN NoPrev
               ELSE [action |-> action_name,
                     ok |-> exc = NoFault,
                     paused |-> Range(calls.service_pause)]
    /\ IF name \in ActionsRegistry
       THEN /\ pc' = Handler(name)
            /\ calls' = [NoCalls EXCEPT !.handler = <<name>>]
            /\ exc' = NoFault
            /\ ret' = "None"
            /\ exit_code' = 0
            /\ stderr' = ""
       ELSE Exit([NoCalls EXCEPT !.action_fail = <<UndefinedMsg(name)>>],
                 NoFault, UndefinedMsg(name))
    /\ UNCHANGED stores

invocation == <<runs, action_name, params, start, prev>>

-----------------------------------------------------------------------------
(* Agent Registry Accessor *)

_get_agents_binaries ==
    <<"neutron-openvswitch-agent", "neutron-l3-agent">>
        \o (IF cfg_dhcp
            THEN <<"neutron-metadata-agent", "neutron-dhcp-agent">>
            ELSE <<>>)

(* neutron.get_network_agents_on_host: the registered agents of one host,  *)
(* each with the admin flag it has at the time of the query.               *)
get_network_agents_on_host(host) ==
    {[id |-> a, binary |-> AgentBinary(a),
      admin_state_up |-> agents_db[a] = "up"] :
        a \in {x \in AgentIds :
                 agents_db[x] # "absent" /\ AgentHost(x) = host}}

host_name == IF fqdn_hint THEN host_info.host_fqdn ELSE host_info.host

(* Faulty variant: the agents of the host are not filtered by binary. *)
_get_agents_unfiltered == get_network_agents_on_host(host_name)

_get_agents ==
    {agent \in get_network_agents_on_host(host_name) :
        agent.binary \in Range(_get_agents_binaries)}

(* if not agents: log("No agents registered", WARNING) *)
NoAgentsWarning ==
    IF get_network_agents_on_host(host_name) = {} THEN 1 ELSE 0

-----------------------------------------------------------------------------
(* disable / enable: _set_agents(state) *)

(* disable calls _set_agents(False), enable calls _set_agents(True). *)
state == action_name = "enable"

(* neutron.get_neutron() and _get_agents(neutron_client) *)
set_agents_query ==
    /\ pc = "_set_agents"
    /\ \/ /\ agents' = _get_agents
          /\ Step("update_agent", [calls EXCEPT !.log = @ + NoAgentsWarning])
       \/ /\ Raise(calls)
          /\ UNCHANGED agents
    /\ UNCHANGED <<stores, invocation, cur, binaries>>

(* One iteration of the loop: update_agent(agent['id'], ...) *)
set_agents_update(agent) ==
    /\ pc = "update_agent"
    /\ agent \in agents
    /\ \/ /\ agents_db' =
                [agents_db EXCEPT ![agent.id] = IF state THEN "up" ELSE "down"]
          /\ agents' = agents \ {agent}
          /\ Step("update_agent",
                  [calls EXCEPT
                     !.update_agent = Append(@, <<agent.id, state>>)])
       \/ /\ Raise(calls)
          /\ UNCHANGED <<agents_db, agents>>
    /\ UNCHANGED <<cfg_dhcp, fqdn_hint, unit_status, svc_paused,
                   restart_permitted, deferred_hooks, invocation, cur,
                   binaries>>

(* The loop is over: log('Set neutron agents to admin_state_up: ...') *)
set_agents_done ==
    /\ pc = "update_agent"
    /\ agents = {}
    /\ Return([calls EXCEPT !.log = @ + 1])
    /\ UNCHANGED <<stores, invocation, agents, cur, binaries>>

-----------------------------------------------------------------------------
(* register-to-cloud *)

(* Faulty variant: only the two core agents are resumed, whatever the      *)
(* configuration.                                                          *)
register_to_cloud_core_only ==
    /\ pc = "register_to_cloud"
    /\ binaries' = <<"neutron-openvswitch-agent", "neutron-l3-agent">>
    /\ Step("service_resume", [calls EXCEPT !.log = @ + 1])
    /\ UNCHANGED <<stores, invocation, agents, cur>>

(* log("Starting neutron agents"); agents_binaries = _get_agents_binaries() *)
register_to_cloud ==
    /\ pc = "register_to_cloud"
    /\ binaries' = _get_agents_binaries
    /\ Step("service_resume", [calls EXCEPT !.log = @ + 1])
    /\ UNCHANGED <<stores, invocation, agents, cur>>

(* One iteration of the loop: service_resume(binary) *)
register_resume ==
    /\ pc = "service_resume"
    /\ binaries # <<>>
    /\ \/ /\ svc_paused' = svc_paused \ {Head(binaries)}
          /\ binaries' = Tail(binaries)
          /\ Step("service_resume",
                  [calls EXCEPT
                     !.service_resume = Append(@, Head(binaries))])
       \/ /\ Raise(calls)
          /\ UNCHANGED <<svc_paused, binaries>>
    /\ UNCHANGED <<agents_db, cfg_dhcp, fqdn_hint, unit_status,
                   restart_permitted, deferred_hooks, invocation, agents,
                   cur>>

(* Faulty variant: the status is recognised by its message alone. *)
set_by_remove_from_cloud_message_only(current_status) ==
    current_status[2] = UNIT_REMOVED_MSG

(* The test of the status status_get() returned. *)
set_by_remove_from_cloud(current_status) ==
    /\ current_status[1] = BLOCKED
    /\ current_status[2] = UNIT_REMOVED_MSG

(* The loop is over: status_get, the conditional status_set, function_set. *)
register_finish ==
    /\ pc = "service_resume"
    /\ binaries = <<>>
    /\ IF set_by_remove_from_cloud(unit_status)
       THEN /\ unit_status' = <<ACTIVE, "Unit is ready">>
            /\ Return([calls EXCEPT
                         !.status_set = Append(@, <<ACTIVE, "Unit is ready">>),
                         !.function_set = @ + 1])
       ELSE /\ unit_status' = unit_status
            /\ Return([calls EXCEPT !.function_set = @ + 1])
    /\ UNCHANGED <<agents_db, cfg_dhcp, fqdn_hint, svc_paused,
                   restart_permitted, deferred_hooks, invocation, agents, cur,
                   binaries>>

-----------------------------------------------------------------------------
(* remove-from-cloud *)

(* log; neutron.get_neutron(); _get_agents(neutron_client) *)
remove_from_cloud ==
    /\ pc = "remove_from_cloud"
    /\ \/ /\ agents' = _get_agents
          /\ Step("remove_loop",
                  [calls EXCEPT !.log = @ + 1 + NoAgentsWarning])
       \/ /\ Raise([calls EXCEPT !.log = @ + 1])
          /\ UNCHANGED agents
    /\ UNCHANGED <<stores, invocation, cur, binaries>>

(* Faulty variant: the precondition error ends the action. *)
remove_check_abort(agent) ==
    /\ pc = "remove_loop"
    /\ agent \in agents
    /\ IF agent.admin_state_up
       THEN /\ Return([calls EXCEPT
                         !.function_fail = Append(@, PRECONDITION_MSG)])
            /\ UNCHANGED cur
       ELSE /\ cur' = agent
            /\ Step("service_pause", calls)
    /\ UNCHANGED <<stores, invocation, agents, binaries>>

(* The loop takes the next agent: if agent['admin_state_up']:              *)
(* function_fail(...), and goes on to pause the agent either way.          *)
remove_check(agent) ==
    /\ pc = "remove_loop"
    /\ agent \in agents
    /\ cur' = agent
    /\ Step("service_pause",
            IF agent.admin_state_up
            THEN [calls EXCEPT !.function_fail = Append(@, PRECONDITION_MSG)]
            ELSE calls)
    /\ UNCHANGED <<stores, invocation, agents, binaries>>

(* service_pause(agent['binary']) *)
remove_pause ==
    /\ pc = "service_pause"
    /\ \/ /\ svc_paused' = svc_paused \cup {cur.binary}
          /\ Step("delete_agent",
                  [calls EXCEPT !.service_pause = Append(@, cur.binary)])
       \/ /\ Raise(calls)
          /\ UNCHANGED svc_paused
    /\ UNCHANGED <<agents_db, cfg_dhcp, fqdn_hint, unit_status,
                   restart_permitted, deferred_hooks, invocation, agents, cur,
                   binaries>>

(* neutron_client.delete_agent(agent['id']) *)
remove_delete ==
    /\ pc = "delete_agent"
    /\ \/ /\ agents_db' = [agents_db EXCEPT ![cur.id] = "absent"]
          /\ agents' = agents \ {cur}
          /\ cur' = NoAgent
          /\ Step("remove_loop",
                  [calls EXCEPT !.delete_agent = Append(@, cur.id)])
       \/ /\ Raise(calls)
          /\ UNCHANGED <<agents_db, agents, cur>>
    /\ UNCHANGED <<cfg_dhcp, fqdn_hint, unit_status, svc_paused,
                   restart_permitted, deferred_hooks, invocation, binaries>>

(* Faulty variant: the status is set inside the loop, before the agents    *)
(* left have been deleted.                                                 *)
remove_finish_early ==
    /\ pc = "remove_loop"
    /\ unit_status' = <<BLOCKED, UNIT_REMOVED_MSG>>
    /\ Return([calls EXCEPT
                 !.log = @ + 1,
                 !.status_set = Append(@, <<BLOCKED, UNIT_REMOVED_MSG>>),
                 !.function_set = @ + 1])
    /\ UNCHANGED <<agents_db, cfg_dhcp, fqdn_hint, svc_paused,
                   restart_permitted, deferred_hooks, invocation, agents, cur,
                   binaries>>

(* The loop is over: log, status_set(BLOCKED, UNIT_REMOVED_MSG),           *)
(* function_set({'message': UNIT_REMOVED_MSG})                             *)
remove_finish ==
    /\ pc = "remove_loop"
    /\ agents = {}
    /\ unit_status' = <<BLOCKED, UNIT_REMOVED_MSG>>
    /\ Return([calls EXCEPT
                 !.log = @ + 1,
                 !.status_set = Append(@, <<BLOCKED, UNIT_REMOVED_MSG>>),
                 !.function_set = @ + 1])
    /\ UNCHANGED <<agents_db, cfg_dhcp, fqdn_hint, svc_paused,
                   restart_permitted, deferred_hooks, invocation, agents, cur,
                   binaries>>

-----------------------------------------------------------------------------
(* pause / resume *)

(* assess_status of neutron_ovs_utils, and the health assessment its pause *)
(* and resume helpers end with, recompute the unit's health and report it  *)
(* as the workload status.                                                 *)
AssessedStatuses ==
    {<<ACTIVE, "Unit is ready">>,
     <<BLOCKED, "Unrelated reason for blocked status">>}

(* pause_unit_helper / resume_unit_helper of neutron_ovs_utils pause or    *)
(* resume the services of the unit's role, the virtual switch excluded.    *)
RoleServices == Range(_get_agents_binaries)

pause_unit_helper == svc_paused \cup RoleServices

resume_unit_helper == svc_paused \ RoleServices

pause ==
    /\ pc = "pause"
    /\ \/ /\ svc_paused' = pause_unit_helper
          /\ \E s \in AssessedStatuses :
                /\ unit_status' = s
                /\ Return([calls EXCEPT !.status_set = Append(@, s)])
       \/ /\ Raise(calls)
          /\ UNCHANGED <<svc_paused, unit_status>>
    /\ UNCHANGED <<agents_db, cfg_dhcp, fqdn_hint, restart_permitted,
                   deferred_hooks, invocation, agents, cur, binaries>>

resume ==
    /\ pc = "resume"
    /\ \/ /\ svc_paused' = resume_unit_helper
          /\ \E s \in AssessedStatuses :
                /\ unit_status' = s
                /\ Return([calls EXCEPT !.status_set = Append(@, s)])
       \/ /\ Raise(calls)
          /\ UNCHANGED <<svc_paused, unit_status>>
    /\ UNCHANGED <<agents_db, cfg_dhcp, fqdn_hint, restart_permitted,
                   deferred_hooks, invocation, agents, cur, binaries>>

-----------------------------------------------------------------------------
(* restart-services, run-deferred-hooks, show-deferred-events *)

(* Faulty variant: the check for neither option is missing. *)
restart_check_no_neither(deferred_only, services) ==
    IF deferred_only /\ services # <<>> THEN "both" ELSE "ok"

(* The input check of restart: which of its branches the parameters take.  *)
restart_check(deferred_only, services) ==
    IF deferred_only /\ services # <<>> THEN "both"
    ELSE IF ~(deferred_only \/ services # <<>>) THEN "neither"
    ELSE "ok"

(* restart, up to the end of its input check *)
restart ==
    LET check == restart_check(params.deferred_only, split(params.services))
    IN
    /\ pc = "restart"
    /\ CASE check = "both" ->
              Return([calls EXCEPT !.action_fail =
                        Append(@, "Cannot set deferred-only and services")])
         [] check = "neither" ->
              Return([calls EXCEPT !.action_fail =
                        Append(@, "Please specify deferred-only or services")])
         [] OTHER ->
              Step(IF params.run_hooks THEN "_run_deferred_hooks"
                   ELSE "restart_services_action", calls)
    /\ UNCHANGED <<stores, invocation, agents, cur, binaries>>

(* run_deferred_hooks starts with _run_deferred_hooks() *)
run_deferred_hooks ==
    /\ pc = "run_deferred_hooks"
    /\ Step("_run_deferred_hooks", calls)
    /\ UNCHANGED <<stores, invocation, agents, cur, binaries>>

(* Faulty variant: the hooks are replayed when a restart is permitted. *)
hooks_due_when_permitted ==
    /\ restart_permitted
    /\ deferred_hooks # {}
    /\ "config-changed" \in deferred_hooks

(* The condition under which _run_deferred_hooks replays config-changed.   *)
hooks_due ==
    /\ ~restart_permitted
    /\ deferred_hooks # {}
    /\ "config-changed" \in deferred_hooks

(* neutron_ovs_hooks.config_changed(check_deferred_restarts=False) *)
config_changed_call ==
    [calls EXCEPT
       !.config_changed = Append(@, [check_deferred_restarts |-> FALSE])]

_run_deferred_hooks ==
    /\ pc = "_run_deferred_hooks"
    /\ IF hooks_due
       THEN \/ /\ deferred_hooks' = deferred_hooks \ {"config-changed"}
               /\ Step("restart_services_action",
                       [config_changed_call EXCEPT
                          !.clear_deferred_hook = Append(@, "config-changed")])
            \/ /\ Raise(config_changed_call)
               /\ UNCHANGED deferred_hooks
       ELSE /\ Step("restart_services_action", calls)
            /\ UNCHANGED deferred_hooks
    /\ UNCHANGED <<agents_db, cfg_dhcp, fqdn_hint, unit_status, svc_paused,
                   restart_permitted, invocation, agents, cur, binaries>>

(* The request restart and run_deferred_hooks pass to                      *)
(* os_utils.restart_services_action.                                       *)
restart_request ==
    IF action_name = "run-deferred-hooks" \/ params.deferred_only
    THEN [deferred_only |-> TRUE, services |-> <<>>]
    ELSE [deferred_only |-> FALSE, services |-> split(params.services)]

restart_services_action ==
    /\ pc = "restart_services_action"
    /\ \/ Step("assess_status",
               [calls EXCEPT
                  !.restart_services_action = Append(@, restart_request)])
       \/ Raise(calls)
    /\ UNCHANGED <<stores, invocation, agents, cur, binaries>>

(* assess_status(register_configs()) *)
assess_status ==
    /\ pc = "assess_status"
    /\ \/ \E s \in AssessedStatuses :
             /\ unit_status' = s
             /\ Return([calls EXCEPT !.assess_status = @ + 1,
                                     !.status_set = Append(@, s)])
       \/ /\ Raise(calls)
          /\ UNCHANGED unit_status
    /\ UNCHANGED <<agents_db, cfg_dhcp, fqdn_hint, svc_paused,
                   restart_permitted, deferred_hooks, invocation, agents, cur,
                   binaries>>

(* os_utils.show_deferred_events_action_helper() reports the deferred      *)
(* events as the action's result.                                          *)
show_deferred_events ==
    /\ pc = "show_deferred_events"
    /\ \/ Return([calls EXCEPT !.function_set = @ + 1])
       \/ Raise(calls)
    /\ UNCHANGED <<stores, invocation, agents, cur, binaries>>

-----------------------------------------------------------------------------
(* The specifications *)

(* The script is run as one of the names, with parameters from ps. *)
Run(names, ps) ==
    \E argv0 \in Argv0s, p \in ps :
        /\ basename(argv0) \in names
        /\ basename(argv0) # "restart-services" => p = NoParams
        /\ main(argv0, p)

SetAgentsSteps ==
    \/ set_agents_query
    \/ \E agent \in agents : set_agents_update(agent)
    \/ set_agents_done

RegisterSteps ==
    \/ register_to_cloud
    \/ register_resume
    \/ register_finish

RemoveSteps ==
    \/ remove_from_cloud
    \/ \E agent \in agents : remove_check(agent)
    \/ remove_pause
    \/ remove_delete
    \/ remove_finish

RestartSteps ==
    \/ restart
    \/ run_deferred_hooks
    \/ _run_deferred_hooks
    \/ restart_services_action
    \/ assess_status

(* Every action, invoked once, from any state of the stores. *)
InitMain ==
    \E db \in [AgentIds -> {"up", "down"}], dhcp \in BOOLEAN, fqdn \in BOOLEAN,
       status \in {<<ACTIVE, "Unit is ready">>, <<BLOCKED, UNIT_REMOVED_MSG>>},
       permitted \in BOOLEAN, hooks \in {{}, {"config-changed"}} :
        /\ db["a3"] = "up"
        /\ db["a4"] = "down"
        /\ InitWith(db, dhcp, fqdn, status, permitted, hooks)

MainParams ==
    {p \in ParamSets : Len(p.services) <= 1}

NextMain ==
    \/ runs < 1 /\ Run(Names, MainParams)
    \/ SetAgentsSteps
    \/ pause
    \/ resume
    \/ RegisterSteps
    \/ RemoveSteps
    \/ RestartSteps
    \/ show_deferred_events

SpecMain == InitMain /\ [][NextMain]_vars

(* The actions on the agents of the unit, invoked one after another. *)
AgentNames ==
    {"disable", "enable", "register-to-cloud", "remove-from-cloud"}

InitAgents ==
    \E db \in [AgentIds -> {"up", "down"}], dhcp \in BOOLEAN, fqdn \in BOOLEAN,
       status \in Statuses :
        /\ db["a3"] = "up"
        /\ db["a4"] = "down"
        /\ InitWith(db, dhcp, fqdn, status, TRUE, {})

NextAgents ==
    \/ runs < MaxRuns /\ Run(AgentNames, {NoParams})
    \/ SetAgentsSteps
    \/ RegisterSteps
    \/ RemoveSteps

SpecAgents == InitAgents /\ [][NextAgents]_vars

(* The actions on the deferred restarts and hooks, one after another. *)
RestartNames == {"restart-services", "run-deferred-hooks"}

InitRestart ==
    \E permitted \in BOOLEAN, hooks \in SUBSET HookNames :
        InitWith([a \in AgentIds |-> "up"], FALSE, FALSE,
                 <<ACTIVE, "Unit is ready">>, permitted, hooks)

NextRestart ==
    \/ runs < MaxRuns /\ Run(RestartNames, ParamSets)
    \/ RestartSteps

SpecRestart == InitRestart /\ [][NextRestart]_vars

-----------------------------------------------------------------------------
(* Vocabulary of the properties *)

Exited(name) == pc = "exited" /\ action_name = name

NoFaultRaised == exc = NoFault

(* The agents the unit acts on, given the registry db: those registered    *)
(* under the unit's host name whose binary the unit's configuration runs.  *)
RelevantBinaries ==
    IF cfg_dhcp
    THEN {"neutron-openvswitch-agent", "neutron-l3-agent",
          "neutron-metadata-agent", "neutron-dhcp-agent"}
    ELSE {"neutron-openvswitch-agent", "neutron-l3-agent"}

Relevant(db) ==
    {a \in AgentIds :
        /\ db[a] # "absent"
        /\ AgentHost(a) = (IF fqdn_hint THEN "node1.maas" ELSE "node1")
        /\ AgentBinary(a) \in RelevantBinaries}

(* The "services" parameter names at least one service. *)
NamesAService(s) == \E i \in DOMAIN s : s[i] # " "

(* The status and result reports of the invocation so far. *)
Reports ==
    Len(calls.status_set) + calls.function_set + Len(calls.action_fail)
        + Len(calls.function_fail)

-----------------------------------------------------------------------------
(* C1: main never lets a fault escape.  When the invocation has ended: if  *)
(* the name is not registered, no handler was invoked, action_fail was     *)
(* called with exactly "Action {name} undefined" and main returned that    *)
(* string; if the name is registered and its handler raised an exception   *)
(* whose str() is m, action_fail was called exactly once, with             *)
(* "Action {name} failed: {m}", and main returned None.                    *)
C1_MainReportsEveryFault ==
    pc = "exited" =>
        /\ action_name \notin ActionsRegistry =>
              /\ calls.handler = <<>>
              /\ calls.action_fail =
                    <<"Action " \o action_name \o " undefined">>
              /\ ret = "Action " \o action_name \o " undefined"
        /\ action_name \in ActionsRegistry =>
              /\ calls.handler = <<action_name>>
              /\ exc = [kind |-> "Exception", arg |-> "boom"] =>
                    /\ calls.action_fail =
                          <<"Action " \o action_name \o " failed: boom">>
                    /\ ret = "None"
              /\ exc = [kind |-> "KeyError", arg |-> "binary"] =>
                    /\ calls.action_fail =
                          <<"Action " \o action_name \o " failed: 'binary'">>
                    /\ ret = "None"

(* A registered handler raised a KeyError after it had started its work. *)
C1_Witness ==
    /\ Exited("remove-from-cloud")
    /\ exc.kind = "KeyError"
    /\ Len(calls.service_pause) = 1
    /\ Len(calls.action_fail) = 1

-----------------------------------------------------------------------------
(* C2: restart-services checks its parameters before any side effect.  If  *)
(* deferred-only is set and services names a service, or deferred-only is  *)
(* unset and services names none, the action reports an argument error and *)
(* replays no hook, requests no restart and reassesses no status.  In      *)
(* every other case it requests exactly one restart, deferred-only or of   *)
(* the services named, unless a collaborator call raises before it.        *)
C2_RestartValidatesFirst ==
    action_name = "restart-services" =>
        LET both == params.deferred_only /\ NamesAService(params.services)
            neither == ~params.deferred_only /\ ~NamesAService(params.services)
        IN
        /\ both \/ neither =>
              /\ calls.config_changed = <<>>
              /\ calls.clear_deferred_hook = <<>>
              /\ calls.restart_services_action = <<>>
              /\ calls.assess_status = 0
              /\ calls.status_set = <<>>
              /\ deferred_hooks = start.hooks
              /\ unit_status = start.status
              /\ pc = "exited" =>
                    /\ NoFaultRaised
                    /\ calls.action_fail =
                          IF both
                          THEN <<"Cannot set deferred-only and services">>
                          ELSE <<"Please specify deferred-only or services">>
        /\ ~(both \/ neither) =>
              /\ Len(calls.restart_services_action) <= 1
              /\ pc = "exited" /\ NoFaultRaised =>
                    /\ Len(calls.restart_services_action) = 1
                    /\ calls.restart_services_action[1].deferred_only
                          = params.deferred_only
                    /\ ~params.deferred_only =>
                          /\ calls.restart_services_action[1].services
                                = split(params.services)
                          /\ calls.restart_services_action[1].services # <<>>
                    /\ calls.action_fail = <<>>
                    /\ calls.assess_status = 1

(* Both options were given, with run-hooks set and a hook due. *)
C2_Witness ==
    /\ Exited("restart-services")
    /\ params.deferred_only
    /\ params.services = <<"s", " ", "s">>
    /\ params.run_hooks
    /\ ~restart_permitted
    /\ "config-changed" \in deferred_hooks
    /\ calls.action_fail = <<"Cannot set deferred-only and services">>

-----------------------------------------------------------------------------
(* C3: in every state of a remove-from-cloud run, the status has been set  *)
(* to (BLOCKED, UNIT_REMOVED_MSG) only if every relevant agent of the live *)
(* query has been deleted; every delete call follows the pause of that     *)
(* agent's service; and if a pause or delete call raised, the status is    *)
(* as the run found it and the agents not reached are neither paused nor   *)
(* deleted.                                                                *)
C3_StatusOnlyAfterAllDeleted ==
    action_name = "remove-from-cloud" =>
        /\ \/ /\ calls.status_set = <<>>
              /\ unit_status = start.status
           \/ /\ calls.status_set =
                    <<<<"blocked",
                        "Neutron agents were removed from the cloud">>>>
              /\ unit_status = calls.status_set[1]
              /\ \A a \in Relevant(start.db) :
                    /\ agents_db[a] = "absent"
                    /\ \E i \in DOMAIN calls.delete_agent :
                          calls.delete_agent[i] = a
        /\ \A i \in DOMAIN calls.delete_agent :
              /\ i <= Len(calls.service_pause)
              /\ calls.service_pause[i] = AgentBinary(calls.delete_agent[i])
              /\ calls.delete_agent[i] \in Relevant(start.db)
        /\ Len(calls.service_pause) <= Len(calls.delete_agent) + 1
        /\ svc_paused = start.paused \cup Range(calls.service_pause)
        /\ \A a \in AgentIds :
              a \notin Range(calls.delete_agent) => agents_db[a] = start.db[a]
        /\ pc = "exited" /\ ~NoFaultRaised => calls.status_set = <<>>

(* The pause of the first of two relevant agents raised. *)
C3_Witness ==
    /\ Exited("remove-from-cloud")
    /\ ~NoFaultRaised
    /\ Cardinality(Relevant(start.db)) = 2
    /\ Len(calls.service_pause) = 1
    /\ calls.delete_agent = <<>>
    /\ unit_status = <<"maintenance", UNIT_REMOVED_MSG>>

-----------------------------------------------------------------------------
(* C4: the precondition error does not abort remove-from-cloud.  When the  *)
(* run ends without a collaborator call having raised, the failure         *)
(* "Consider disabling neutron agents before deletion" has been reported   *)
(* once for every relevant agent whose admin flag was true, every relevant *)
(* agent, those included, has been paused and deleted, and the status is   *)
(* (BLOCKED, UNIT_REMOVED_MSG).                                            *)
C4_PreconditionErrorContinues ==
    Exited("remove-from-cloud") /\ NoFaultRaised =>
        /\ Len(calls.function_fail)
              = Cardinality({a \in Relevant(start.db) : start.db[a] = "up"})
        /\ \A i \in DOMAIN calls.function_fail :
              calls.function_fail[i]
                 = "Consider disabling neutron agents before deletion"
        /\ Range(calls.delete_agent) = Relevant(start.db)
        /\ Range(calls.service_pause)
              = {AgentBinary(a) : a \in Relevant(start.db)}
        /\ \A a \in Relevant(start.db) : agents_db[a] = "absent"
        /\ unit_status
              = <<"blocked", "Neutron agents were removed from the cloud">>
        /\ calls.function_set = 1

(* Two relevant agents, the precondition error reported for one of them. *)
C4_Witness ==
    /\ Exited("remove-from-cloud")
    /\ NoFaultRaised
    /\ Len(calls.function_fail) = 1
    /\ Len(calls.delete_agent) = 2

-----------------------------------------------------------------------------
(* C5: when register-to-cloud ends without a collaborator call having      *)
(* raised, the status is (ACTIVE, "Unit is ready") if the run found it     *)
(* exactly (BLOCKED, UNIT_REMOVED_MSG), and as the run found it otherwise; *)
(* either way every binary of the configured list has been resumed and     *)
(* one result has been reported.                                           *)
C5_RegisterResetsOnlyRemovedStatus ==
    Exited("register-to-cloud") /\ NoFaultRaised =>
        /\ IF start.status
                = <<"blocked", "Neutron agents were removed from the cloud">>
           THEN /\ unit_status = <<"active", "Unit is ready">>
                /\ calls.status_set = <<<<"active", "Unit is ready">>>>
           ELSE /\ unit_status = start.status
                /\ calls.status_set = <<>>
        /\ Range(calls.service_resume) = RelevantBinaries
        /\ Len(calls.service_resume) = Cardinality(RelevantBinaries)
        /\ svc_paused = start.paused \ RelevantBinaries
        /\ calls.function_set = 1

(* The run found the status remove-from-cloud sets, and reset it. *)
C5_Witness ==
    /\ Exited("register-to-cloud")
    /\ NoFaultRaised
    /\ start.status = <<BLOCKED, UNIT_REMOVED_MSG>>
    /\ unit_status = <<ACTIVE, "Unit is ready">>
    /\ Len(calls.service_resume) = 4

-----------------------------------------------------------------------------
(* C6: when enable or disable ends without a collaborator call having      *)
(* raised, every relevant agent has the admin flag asked for and every     *)
(* other agent the flag it had; and a run that repeats the action of the   *)
(* run before it, which ended the same way, changes nothing.               *)
C6_SetAgentsAdminState ==
    pc = "exited" /\ action_name \in {"enable", "disable"} /\ NoFaultRaised =>
        /\ \A a \in AgentIds :
              IF a \in Relevant(start.db)
              THEN agents_db[a]
                      = (IF action_name = "enable" THEN "up" ELSE "down")
              ELSE agents_db[a] = start.db[a]
        /\ prev.action = action_name /\ prev.ok => agents_db = start.db

(* disable, twice in a row, with two relevant agents. *)
C6_Witness ==
    /\ Exited("disable")
    /\ NoFaultRaised
    /\ prev.action = "disable"
    /\ prev.ok
    /\ Len(calls.update_agent) = 2

-----------------------------------------------------------------------------
(* The invocation runs the Deferred-Hook Runner, and the runner has        *)
(* returned.                                                               *)
RunnerReturned ==
    /\ action_name = "run-deferred-hooks" \/ params.run_hooks
    /\ pc \in {"restart_services_action", "assess_status"}

(* What the runner did and left alone whatever the stores hold: it calls   *)
(* no handler but config-changed, at most once and with re-deferral        *)
(* suppressed, clears no marker but that of config-changed, and clears it  *)
(* only after the handler has returned.                                    *)
RunnerFrame ==
    /\ Len(calls.config_changed) <= 1
    /\ \A i \in DOMAIN calls.config_changed :
          calls.config_changed[i] = [check_deferred_restarts |-> FALSE]
    /\ calls.clear_deferred_hook \in {<<>>, <<"config-changed">>}
    /\ calls.clear_deferred_hook # <<>> => calls.config_changed # <<>>
    /\ deferred_hooks =
          IF calls.clear_deferred_hook = <<>> THEN start.hooks
          ELSE start.hooks \ {"config-changed"}
    /\ "config-changed" \notin start.hooks => calls.config_changed = <<>>

(* C7, as the specification states it: the runner replays only when a      *)
(* restart is permitted.  If a restart is not permitted the runner does    *)
(* nothing; if it is permitted and config-changed is marked deferred, the  *)
(* handler is invoked with re-deferral suppressed and the marker cleared.  *)
C7_ReplaysWhenPermitted ==
    action_name \in RestartNames =>
        /\ RunnerFrame
        /\ ~restart_permitted =>
              /\ calls.config_changed = <<>>
              /\ calls.clear_deferred_hook = <<>>
        /\ restart_permitted /\ "config-changed" \in start.hooks
              /\ RunnerReturned =>
              /\ calls.config_changed = <<[check_deferred_restarts |-> FALSE]>>
              /\ calls.clear_deferred_hook = <<"config-changed">>

(* C7, amended: the runner replays only when a restart is NOT permitted.   *)
(* If a restart is permitted the runner does nothing; if it is not         *)
(* permitted and config-changed is marked deferred, the handler is invoked *)
(* with re-deferral suppressed and only then the marker is cleared.        *)
C7_ReplaysWhenNotPermitted ==
    action_name \in RestartNames =>
        /\ RunnerFrame
        /\ restart_permitted =>
              /\ calls.config_changed = <<>>
              /\ calls.clear_deferred_hook = <<>>
        /\ ~restart_permitted /\ "config-changed" \in start.hooks
              /\ RunnerReturned =>
              /\ calls.config_changed = <<[check_deferred_restarts |-> FALSE]>>
              /\ calls.clear_deferred_hook = <<"config-changed">>

(* A restart is not permitted, and the runner has replayed config-changed. *)
C7_Witness ==
    /\ action_name = "run-deferred-hooks"
    /\ pc = "assess_status"
    /\ ~restart_permitted
    /\ start.hooks = HookNames
    /\ deferred_hooks = {"update-status"}
    /\ calls.clear_deferred_hook = <<"config-changed">>

-----------------------------------------------------------------------------
-----------------------------------------------------------------------------
(* A failure the script handles: an unknown name, an argument error of     *)
(* restart-services, a handler exception caught by main.                   *)
HandledFailure ==
    \/ action_name \notin ActionsRegistry
    \/ ~NoFaultRaised
    \/ action_name = "restart-services" /\ calls.action_fail # <<>>

(* C9, as the specification states it: every handled failure ends the      *)
(* process with the exit value of a successful action, and hands nothing   *)
(* else to the process exit.                                               *)
C9_HandledFailuresExitLikeSuccess ==
    pc = "exited" =>
        /\ ~HandledFailure => exit_code = 0 /\ stderr = ""
        /\ HandledFailure => exit_code = 0 /\ stderr = ""

(* C9, amended: an argument error of restart-services and a handler        *)
(* exception caught by main end the process like a successful action,      *)
(* with status 0 and no output; an unknown name makes main return the      *)
(* message, which sys.exit prints to stderr, and the process exits with    *)
(* status 1.                                                               *)
C9_OnlyUnknownNameChangesExit ==
    pc = "exited" =>
        IF action_name \in ActionsRegistry
        THEN exit_code = 0 /\ stderr = "" /\ ret = "None"
        ELSE /\ exit_code = 1
             /\ stderr = "Action " \o action_name \o " undefined"

(* The script was run under a name that is not registered. *)
C9_Witness ==
    /\ Exited("foo")
    /\ exit_code = 1
    /\ stderr = "Action foo undefined"
    /\ calls.action_fail = <<"Action foo undefined">>

-----------------------------------------------------------------------------
(* C10: register-to-cloud reverts remove-from-cloud.  When                 *)
(* register-to-cloud ends without a collaborator call having raised, right *)
(* after a remove-from-cloud that ended the same way, under the same       *)
(* configuration, every service remove-from-cloud paused has been resumed  *)
(* and the status is (ACTIVE, "Unit is ready").                            *)
C10_RegisterRevertsRemove ==
    /\ Exited("register-to-cloud")
    /\ NoFaultRaised
    /\ prev.action = "remove-from-cloud"
    /\ prev.ok
    => /\ prev.paused \subseteq Range(calls.service_resume)
       /\ prev.paused \cap svc_paused = {}
       /\ start.status
             = <<"blocked", "Neutron agents were removed from the cloud">>
       /\ unit_status = <<"active", "Unit is ready">>

(* remove-from-cloud paused the services of two agents, the DHCP agent's   *)
(* among them, and register-to-cloud has run after it.                     *)
C10_Witness ==
    /\ Exited("register-to-cloud")
    /\ NoFaultRaised
    /\ prev.action = "remove-from-cloud"
    /\ prev.ok
    /\ prev.paused = {"neutron-openvswitch-agent", "neutron-dhcp-agent"}
    /\ svc_paused = {}

=============================================================================
